---- MODULE Spec2Model ----
(***************************************************************************)
(* Connection and transaction management of postmodel:                     *)
(*   postmodel/asyncdb/base/client.py    (registry, ConnectionWrapper,     *)
(*                                        BaseTransactionWrapper)          *)
(*   postmodel/asyncdb/asyncpg/client.py (PoolConnectionDispatcher,        *)
(*                                        AsyncpgDBClient,                 *)
(*                                        TransactionWrapper)              *)
(*   postmodel/transactions.py           (in_transaction, atomic,          *)
(*                                        start_transaction)               *)
(*                                                                         *)
(* Tasks are asyncio tasks.  A step of the model is the code a task runs   *)
(* between two suspension points (await of the pool, of the lock, of a     *)
(* native command or of a statement).  The asyncpg pool and connection     *)
(* are the external collaborators: a pool hands out one handle per         *)
(* acquisition, release of a handle that is no longer the live one is a    *)
(* no-op, release of None raises, and a released connection is reset.      *)
(***************************************************************************)
EXTENDS Integers, Sequences, FiniteSets, TLC

\* ---------------------------------------------------------------- bounds
PoolSize == 2        \* connections the Pool owns (max_size)
MaxNest == 2         \* TransactionWrapper objects one task constructs
MaxRows == 2         \* rows inserted (committed or pending) in a run
MaxPools == 2        \* Pools made by asyncpg.create_pool in a run

\* ------------------------------------------------------------- constants
NONE == -1           \* Python None in _old_context_value
CLIENT == 0          \* the AsyncpgDBClient itself (ContextVar default)

TopTasks == {1, 2}   \* tasks started outside any transaction
SubTasks == {3}      \* a task spawned by a running task (asyncio.gather)
Tasks == TopTasks \cup SubTasks
Conns == 1..PoolSize
Pools == 1..MaxPools
\* The scopes of task t are numbered (t - 1) * MaxNest + 1 .. t * MaxNest,
\* in the order the task constructs them.
Scopes == 1..(Cardinality(Tasks) * MaxNest)
MaxDepth == MaxNest + 1   \* native transactions / savepoints open on a connection

NoConn == [c |-> 0, by |-> 0]     \* _connection = None

VARIABLES
    holder,  \* Pool: holder[c] = 0 when c is available, else the token of
             \* the acquisition that holds it (scope id, or -t for a
             \* PoolConnectionDispatcher of task t)
    free,    \* Pool: the available connections, last released first
    misrel,  \* history: the first misuse of Pool.release seen
    rows,    \* database: number of committed rows
    pend,    \* database: per connection, the stack of open native
             \* transactions / savepoints, each with its pending row count
    sc,      \* the TransactionWrapper objects
    locked,  \* asyncio.Lock state, one lock per root scope
    ctx,     \* _current_transaction (ContextVar): one value per task
    inh,     \* history: the registry value a task inherited when spawned
    pc,      \* position of each task
    tk,      \* task-local state of the call in progress
    ex,      \* history: the last __aexit__ of each task
    cl       \* the AsyncpgDBClient: its _pool and the Pools made for it

vars == <<holder, free, misrel, rows, pend, sc, locked, ctx, inh, pc, tk, ex,
          cl>>

\* ------------------------------------------------------------------ Pool
Avail == {free[i] : i \in 1..Len(free)}

\* asyncpg Pool.acquire(): blocks while no connection is free, then hands out
\* the connection released last.
CanAcquire == free # <<>>
Acquired == Head(free)
HolderAfterAcquire(tok) == [holder EXCEPT ![Acquired] = tok]
FreeAfterAcquire == Tail(free)

\* The handle is the live proxy of its connection.
Live(h) == h.c # 0 /\ holder[h.c] = h.by

\* A Pool that loses the connections released to it.
FreeAfterReleaseLost(h) == free

\* asyncpg Pool.release(h), as called at client.py:64 and client.py:269.
ReleaseRaises(h) == h = NoConn
HolderAfterRelease(h) ==
    IF Live(h) THEN [holder EXCEPT ![h.c] = 0] ELSE holder
FreeAfterRelease(h) ==
    IF Live(h) THEN <<h.c>> \o free ELSE free
PendAfterRelease(p, h) ==
    IF Live(h) THEN [p EXCEPT ![h.c] = <<>>] ELSE p
MisrelAfterRelease(h) ==
    IF misrel # "none" THEN misrel
    ELSE IF h = NoConn THEN "null"
    ELSE IF ~Live(h) THEN "stale"
    ELSE "none"

\* -------------------------------------------------------------- database
RECURSIVE SumFrom(_, _)
SumFrom(q, k) == IF k > Len(q) THEN 0 ELSE q[k] + SumFrom(q, k + 1)

Pending == LET RECURSIVE Tot(_)
               Tot(S) == IF S = {} THEN 0
                         ELSE LET c == CHOOSE x \in S : TRUE
                              IN SumFrom(pend[c], 1) + Tot(S \ {c})
           IN Tot(Conns)

\* The rows pending on the connection of a handle.
PendingOn(h) == IF h.c = 0 THEN 0 ELSE SumFrom(pend[h.c], 1)

\* One row inserted through connection c.
PendAfterInsert(c) ==
    IF pend[c] = <<>> THEN pend
    ELSE [pend EXCEPT ![c] = [@ EXCEPT ![Len(@)] = @ + 1]]
RowsAfterInsert(c) == IF pend[c] = <<>> THEN rows + 1 ELSE rows

\* ---------------------------------------------------------------- scopes
\* A TransactionWrapper: the fields of __init__ (client.py:214-230), with
\* xact / lvl for self.transaction (the asyncpg Transaction and its depth on
\* the connection) and three history fields: nfin counts the runs of
\* finalize() past its guard (up to 2), r0 is the committed row count at
\* start(), ncmd counts the native commit / rollback commands sent for the
\* scope (up to 2).
NewScopeRec == [owner |-> 0, parent |-> CLIENT, conn |-> NoConn, lock |-> 0,
                fin |-> FALSE, old |-> NONE, xact |-> "none", lvl |-> 0,
                nfin |-> 0, r0 |-> 0, ncmd |-> 0]

\* How a block was left: its scope s, the exception of the body (bexc), the
\* method __aexit__ called (via), whether that method sent a native command
\* (nat), the exception the block statement raised (out, "none" for a normal
\* exit, "-" while __aexit__ runs), the committed rows at start() (r0) and
\* the rows pending on the scope's connection when the body ended (n).
NewEx == [s |-> 0, bexc |-> "none", via |-> "-", out |-> "-", nat |-> FALSE,
          r0 |-> 0, n |-> 0]

\* ---------------------------------------------------------- Capabilities
\* A Capabilities object: v is its __dict__ ("unset" for a name it does
\* not hold), raised the attribute named by the AttributeError of the last
\* assignment ("none" when it raised nothing).
CapAttrs == {"_mutable", "dialect", "daemon", "requires_limit",
             "safe_indexes", "inline_comment", "pooling", "extra"}
CapValues == {"True", "False", "postgres", ""}
NewObject == [v |-> [a \in CapAttrs |-> "unset"], raised |-> "none"]

\* object.__setattr__, as called through super().
ObjectSetattr(o, a, x) == [o EXCEPT !.v = [@ EXCEPT ![a] = x], !.raised = "none"]

\* A Capabilities class without its __setattr__.
Capabilities_setattr_open(o, a, x) == ObjectSetattr(o, a, x)

\* Capabilities.__setattr__ (base/client.py:56-59).
Capabilities_setattr(o, a, x) ==
    IF (IF o.v["_mutable"] = "unset" THEN "False" ELSE o.v["_mutable"]) # "True"
    THEN [o EXCEPT !.raised = a]
    ELSE ObjectSetattr(o, a, x)

\* Capabilities.__init__ (base/client.py:34-54).
Capabilities_init(dialect, daemon, safe_indexes, requires_limit, inline_comment, pooling) ==
    LET o0 == ObjectSetattr(NewObject, "_mutable", "True")
        o1 == Capabilities_setattr(o0, "dialect", dialect)
        o2 == Capabilities_setattr(o1, "daemon", daemon)
        o3 == Capabilities_setattr(o2, "requires_limit", requires_limit)
        o4 == Capabilities_setattr(o3, "safe_indexes", safe_indexes)
        o5 == Capabilities_setattr(o4, "inline_comment", inline_comment)
        o6 == Capabilities_setattr(o5, "pooling", pooling)
    IN ObjectSetattr(o6, "_mutable", "False")

\* The Client: _pool (0 for None), the state of every Pool made for it
\* ("none": not made), whether a schema is configured, whether the
\* database of the Client exists on the server, its Capabilities
\* (client.py:75), and two history fields: nset counts the SET search_path
\* statements executed (up to 2), lost tells that an assignment to _pool
\* dropped a Pool that was open.
NewClient(has) ==
    [pool |-> IF has THEN 1 ELSE 0,
     st |-> [q \in Pools |-> IF has /\ q = 1 THEN "open" ELSE "none"],
     schema |-> FALSE, db |-> has, nset |-> 0, lost |-> FALSE,
     capabilities |-> Capabilities_init("postgres", "True", "True", "False",
                                        "False", "True")]

NoHolder == [c \in Conns |-> 0]
AllFree == [i \in 1..PoolSize |-> i]

\* Everything but the Client and the connections of its Pool.
InitBase(T) ==
    /\ misrel = "none"
    /\ rows = 0
    /\ pend = [c \in Conns |-> <<>>]
    /\ sc = [s \in Scopes |-> NewScopeRec]
    /\ locked = [s \in Scopes |-> FALSE]
    /\ ctx = [t \in Tasks |-> CLIENT]
    /\ inh = [t \in Tasks |-> CLIENT]
    /\ pc = [t \in Tasks |-> IF t \in T THEN "run" ELSE "off"]
    /\ tk = [t \in Tasks |-> [s |-> 0, h |-> NoConn, src |-> CLIENT, exc |-> "none",
                              blocks |-> <<>>, x |-> FALSE, m |-> "-", q |-> 0,
                              had |-> FALSE]]
    /\ ex = [t \in Tasks |-> NewEx]

\* The tasks of T run against a Client whose Pool was created.
InitWith(T) ==
    /\ InitBase(T)
    /\ holder = NoHolder
    /\ free = AllFree
    /\ cl = NewClient(TRUE)

\* The tasks of T run against a new Client: no Pool yet, with or without a
\* configured schema.
InitNoPool(T) ==
    /\ InitBase(T)
    /\ holder = NoHolder
    /\ free = <<>>
    /\ cl \in {[NewClient(FALSE) EXCEPT !.schema = b, !.db = e] :
                  b \in BOOLEAN, e \in BOOLEAN}

\* -------------------------------------------------------------- registry
\* A registry that is one value shared by all tasks.
CtxSetShared(t, v) == [u \in Tasks |-> v]

\* A registry whose set() puts back the default.
CtxSetClient(t, v) == [ctx EXCEPT ![t] = CLIENT]

\* ContextVar.set: the value changes in the calling task's context only.
CtxSet(t, v) == [ctx EXCEPT ![t] = v]

get_current_transaction(t) == ctx[t]

Running(t) == pc[t] = "run" /\ tk[t].exc = "none"

\* ex[t] tells how the block the task left in its last step was left.
ExReset(t) == [ex EXCEPT ![t] = NewEx]

\* asyncio.gather / create_task in user code: the new task starts with a copy
\* of the spawning task's context.
Spawn(t, u) ==
    /\ Running(t)
    /\ pc[u] = "off"
    /\ t \in TopTasks
    /\ pc' = [pc EXCEPT ![u] = "run"]
    /\ ctx' = CtxSet(u, ctx[t])
    /\ inh' = [inh EXCEPT ![u] = ctx[t]]
    /\ ex' = ExReset(t)
    /\ UNCHANGED <<holder, free, misrel, rows, pend, sc, locked, tk, cl>>

\* ------------------------------------------------------- scope creation
\* A new lock for every scope, nested or not.
ScopeLockFresh(p, n) == n

\* The lock of a scope made from the Client is a new asyncio.Lock (named by
\* the scope that made it); a scope made from a scope takes its parent's.
ScopeLock(p, n) == IF p = CLIENT THEN n ELSE sc[p].lock

\* TransactionWrapper.__init__ as called by _in_transaction of the parent p.
TransactionWrapperInit(t, p, n) ==
    [NewScopeRec EXCEPT !.owner = t, !.parent = p,
                        !.conn = IF p = CLIENT THEN NoConn ELSE sc[p].conn,
                        !.lock = ScopeLock(p, n)]

\* The number of scopes task t has constructed, and the name of its next.
Owned(t) == Cardinality({s \in Scopes : sc[s].owner = t})
NextScope(t) == (t - 1) * MaxNest + Owned(t) + 1

\* in_transaction(): a handle made from the task's current transaction.
InTransaction(t) ==
    /\ Running(t)
    /\ Owned(t) < MaxNest
    /\ sc' = [sc EXCEPT ![NextScope(t)] =
                 TransactionWrapperInit(t, get_current_transaction(t), NextScope(t))]
    /\ ex' = ExReset(t)
    /\ UNCHANGED <<holder, free, misrel, rows, pend, locked, ctx, inh, pc, tk, cl>>

\* ----------------------------------------------------------------- start
\* start() up to its first await of the driver: acquire a connection when
\* none is pinned, then send the native begin.  blk: called by __aenter__.
StartCall(t, s, blk) ==
    /\ Running(t)
    /\ sc[s].owner = t /\ ~sc[s].fin
    /\ Live(sc[s].conn) => Len(pend[sc[s].conn.c]) < MaxDepth
    /\ IF sc[s].conn = NoConn
       THEN /\ CanAcquire
            /\ holder' = HolderAfterAcquire(s)
            /\ free' = FreeAfterAcquire
            /\ sc' = [sc EXCEPT ![s].conn = [c |-> Acquired, by |-> s]]
       ELSE UNCHANGED <<holder, free, sc>>
    /\ pc' = [pc EXCEPT ![t] = "begin"]
    /\ tk' = [tk EXCEPT ![t].s = s, ![t].x = blk]
    /\ ex' = ExReset(t)
    /\ UNCHANGED <<misrel, rows, pend, locked, ctx, inh, cl>>

\* The first start() of a scope: by __aenter__ of a block (blk) or by
\* start_transaction().
Start(t, s, blk) == sc[s].xact = "none" /\ StartCall(t, s, blk)

\* start() called again on a scope that was started already: nothing in
\* start() refuses it.
Restart(t, s) == sc[s].xact # "none" /\ StartCall(t, s, FALSE)


\* The native begin returns; start() saves the registry value and registers
\* the scope.  A begin that fails leaves start() by the exception.
BeginDone(t, ok) ==
    /\ pc[t] = "begin"
    /\ LET s == tk[t].s
           h == sc[s].conn
       IN /\ ok => Live(h)
          /\ IF ok
             THEN /\ pend' = [pend EXCEPT ![h.c] = Append(@, 0)]
                  /\ sc' = [sc EXCEPT ![s].xact = "open",
                                      ![s].lvl = Len(pend[h.c]) + 1,
                                      ![s].old = get_current_transaction(t),
                                      ![s].r0 = rows]
                  /\ ctx' = CtxSet(t, s)
                  /\ tk' = [tk EXCEPT ![t].s = 0, ![t].x = FALSE,
                                      ![t].blocks = IF tk[t].x THEN <<s>> \o @ ELSE @]
             ELSE /\ sc' = [sc EXCEPT ![s].xact = "new"]
                  /\ tk' = [tk EXCEPT ![t].s = 0, ![t].x = FALSE, ![t].exc = "Drv"]
                  /\ UNCHANGED <<pend, ctx>>
    /\ pc' = [pc EXCEPT ![t] = "run"]
    /\ UNCHANGED <<holder, free, misrel, rows, locked, inh, ex, cl>>

\* ------------------------------------------ exception translation
\* The error classes the driver raises out of a statement: "syntax" is
\* asyncpg.SyntaxOrAccessError (a database that exists already is one of
\* them), "integrity" is IntegrityConstraintViolationError, "nocat" is
\* InvalidCatalogNameError, "cancel" and "timeout" are
\* asyncio.CancelledError and TimeoutError, "Drv" is any other error.
DriverErrors == {"syntax", "integrity", "nocat", "cancel", "timeout", "Drv"}

\* A decorator that passes every error on unchanged.
translate_nothing(d) == d

\* translate_exceptions (client.py:30-40), the decorator of every execute_*.
translate_exceptions(d) ==
    IF d = "syntax" THEN "OpErr"
    ELSE IF d = "integrity" THEN "IntegrityError"
    ELSE d

\* ------------------------------------------------------- data operations
\* The connection source a model operation (Model.create, ...) of task t is
\* issued on: ordinary operations run on the task's current transaction.
OpSource(t) == get_current_transaction(t)

\* A TransactionWrapper that inherits AsyncpgDBClient.acquire_connection.
UsesPoolAlways(src) == TRUE

\* acquire_connection() of the source: the Client's makes a
\* PoolConnectionDispatcher, the TransactionWrapper's override makes a
\* ConnectionWrapper of its own connection and lock.
UsesPool(src) == src = CLIENT

InFlight == Cardinality({t \in Tasks : pc[t] \in {"lockwait", "stmt"}})

\* execute_insert up to the await of the statement.  On the Client the
\* PoolConnectionDispatcher acquires a pooled connection; on a scope the
\* ConnectionWrapper is built from the scope's connection and lock, and the
\* task waits for the lock when it is taken.
OpStart(t) ==
    /\ Running(t)
    /\ LET src == OpSource(t)
       IN IF UsesPool(src)
          THEN /\ CanAcquire
               /\ holder' = HolderAfterAcquire(-t)
               /\ free' = FreeAfterAcquire
               /\ tk' = [tk EXCEPT ![t].h = [c |-> Acquired, by |-> -t],
                                   ![t].src = CLIENT]
               /\ pc' = [pc EXCEPT ![t] = "stmt"]
               /\ UNCHANGED locked
          ELSE /\ tk' = [tk EXCEPT ![t].h = sc[src].conn, ![t].src = src]
               /\ IF locked[sc[src].lock]
                  THEN pc' = [pc EXCEPT ![t] = "lockwait"] /\ UNCHANGED locked
                  ELSE /\ pc' = [pc EXCEPT ![t] = "stmt"]
                       /\ locked' = [locked EXCEPT ![sc[src].lock] = TRUE]
               /\ UNCHANGED <<holder, free>>
    /\ ex' = ExReset(t)
    /\ UNCHANGED <<misrel, rows, pend, sc, ctx, inh, cl>>

\* A data operation of a run that inserts at most MaxRows rows.
OpBegin(t) == rows + Pending + InFlight < MaxRows /\ OpStart(t)

\* The lock a task's ConnectionWrapper was built with.
LockOf(t) == sc[tk[t].src].lock

\* ConnectionWrapper.__aenter__: the lock is granted to a waiting task.
LockGranted(t) ==
    /\ pc[t] = "lockwait"
    /\ ~locked[LockOf(t)]
    /\ locked' = [locked EXCEPT ![LockOf(t)] = TRUE]
    /\ pc' = [pc EXCEPT ![t] = "stmt"]
    /\ UNCHANGED <<holder, free, misrel, rows, pend, sc, ctx, inh, tk, ex, cl>>

\* The task is cancelled while ConnectionWrapper.__aenter__ waits for the
\* lock: lock.acquire() raises CancelledError, the block is not entered
\* and the lock is left as it is.
LockWaitCancelled(t) ==
    /\ pc[t] = "lockwait"
    /\ pc' = [pc EXCEPT ![t] = "run"]
    /\ tk' = [tk EXCEPT ![t].h = NoConn, ![t].src = CLIENT,
                        ![t].exc = translate_exceptions("cancel")]
    /\ UNCHANGED <<holder, free, misrel, rows, pend, sc, locked, ctx, inh, ex, cl>>

\* A PoolConnectionDispatcher that keeps the connection when the body of
\* its block raised.
DispatcherReleasesOnSuccess(ok) == ok

\* PoolConnectionDispatcher.__aexit__ releases the connection whatever the
\* exception of the body (client.py:62-64).
DispatcherReleases(ok) == TRUE

\* A ConnectionWrapper that keeps the lock when the body of its block
\* raised.
LockAfterExitOnSuccess(t, ok) ==
    IF ok THEN [locked EXCEPT ![LockOf(t)] = FALSE] ELSE locked

\* ConnectionWrapper.__aexit__ (base/client.py:127-128): lock.release(),
\* whatever the exception of the body.
LockAfterExit(t, ok) == [locked EXCEPT ![LockOf(t)] = FALSE]

\* The statement returns (d = "ok") or raises an error of class d, and the
\* scoped acquisition is left: ConnectionWrapper.__aexit__ releases the
\* lock, PoolConnectionDispatcher.__aexit__ releases the connection to the
\* Pool.  The error passes translate_exceptions; the task goes on at p.
StmtEndWith(t, d, p) ==
    /\ pc[t] = "stmt"
    /\ LET h == tk[t].h
           ok == d = "ok"
           p1 == IF ok THEN PendAfterInsert(h.c) ELSE pend
       IN /\ ok => Live(h)
          /\ rows' = IF ok THEN RowsAfterInsert(h.c) ELSE rows
          /\ IF tk[t].src # CLIENT
             THEN /\ locked' = LockAfterExit(t, ok)
                  /\ pend' = p1
                  /\ UNCHANGED <<holder, free, misrel>>
             ELSE IF DispatcherReleases(ok)
             THEN /\ holder' = HolderAfterRelease(h)
                  /\ free' = FreeAfterRelease(h)
                  /\ pend' = PendAfterRelease(p1, h)
                  /\ misrel' = MisrelAfterRelease(h)
                  /\ UNCHANGED locked
             ELSE /\ pend' = p1
                  /\ UNCHANGED <<holder, free, misrel, locked>>
    /\ tk' = [tk EXCEPT ![t].h = NoConn, ![t].src = CLIENT,
                        ![t].exc = IF d = "ok" THEN "none"
                                   ELSE translate_exceptions(d)]
    /\ pc' = [pc EXCEPT ![t] = p]
    /\ UNCHANGED <<sc, ctx, inh, ex, cl>>

\* The statement returns (ok) or fails with an error the decorator does not
\* translate.
StmtEnd(t, ok, p) == StmtEndWith(t, IF ok THEN "ok" ELSE "Drv", p)

\* The statement of a data operation returns or raises an error of class d
\* and the task runs on.
StmtDoneWith(t, d) == StmtEndWith(t, d, "run")

\* The statement of a data operation returns and the task runs on.
StmtDone(t, ok) == StmtEnd(t, ok, "run")

\* The statement of a task that is one data operation (a coroutine passed
\* to asyncio.gather) returns, and the task ends with it.
StmtDoneEnd(t, ok) == StmtEnd(t, ok, "off")

\* ------------------------------------------- commit, rollback, finalize
\* A call on scope s made by task t returns, raising e unless e = "none".
\* x: the call was made by __aexit__, whose block is left with the call's
\* exception or else with the exception of the body (hx[t].bexc).
Returns(t, s, e, x, hx) ==
    /\ pc' = [pc EXCEPT ![t] = "run"]
    /\ IF x
       THEN LET r == IF e # "none" THEN e ELSE hx[t].bexc
            IN /\ tk' = [tk EXCEPT ![t].s = 0, ![t].x = FALSE, ![t].exc = r,
                                   ![t].blocks = Tail(@)]
               /\ ex' = [hx EXCEPT ![t].out = r]
       ELSE /\ tk' = [tk EXCEPT ![t].s = 0, ![t].x = FALSE, ![t].exc = e]
            /\ ex' = hx

\* finalize() without its guard.
ScopeAfterFinalizeNoGuard(r) ==
    [r EXCEPT !.fin = TRUE, !.conn = NoConn,
              !.nfin = IF @ < 2 THEN @ + 1 ELSE @, !.r0 = 0]

\* finalize(): what it raises, and what it leaves in the scope b[s].
FinalizeRaises(s) ==
    IF sc[s].old = NONE THEN "OpErr"
    ELSE IF ReleaseRaises(sc[s].conn) THEN "Drv"
    ELSE "none"
ScopeAfterFinalize(r) ==
    IF r.old = NONE THEN r
    ELSE [r EXCEPT !.fin = TRUE, !.conn = NoConn,
                   !.nfin = IF @ < 2 THEN @ + 1 ELSE @, !.r0 = 0]

\* finalize() of scope s by task t, on top of the scopes b and the pending
\* rows p left by the caller.
Finalize(t, s, b, p) ==
    /\ sc' = [b EXCEPT ![s] = ScopeAfterFinalize(@)]
    /\ IF sc[s].old = NONE
       THEN pend' = p /\ UNCHANGED <<ctx, holder, free, misrel>>
       ELSE /\ ctx' = CtxSet(t, sc[s].old)
            /\ holder' = HolderAfterRelease(sc[s].conn)
            /\ free' = FreeAfterRelease(sc[s].conn)
            /\ pend' = PendAfterRelease(p, sc[s].conn)
            /\ misrel' = MisrelAfterRelease(sc[s].conn)

\* The guard of commit() / rollback(): the scope is finalized already.
EndRefused(s) == sc[s].fin

\* The asyncpg Transaction of the scope sends its COMMIT / ROLLBACK only
\* when it is started; in any other state (not started, committed, rolled
\* back, failed) it raises without sending anything, and with no
\* Transaction at all commit() fails on None.
NativeSent(s) == sc[s].xact = "open"

\* commit() / rollback() up to the await of the native command.
EndCall(t, s, cmd, x, hx) ==
    IF EndRefused(s)
    THEN /\ Returns(t, s, "TME", x, hx)
         /\ UNCHANGED <<holder, free, misrel, rows, pend, sc, locked, ctx, inh, cl>>
    ELSE /\ pc' = [pc EXCEPT ![t] = cmd]
         /\ tk' = [tk EXCEPT ![t].s = s, ![t].x = x, ![t].exc = "none"]
         /\ ex' = IF x THEN [hx EXCEPT ![t].nat = TRUE] ELSE hx
         /\ sc' = [sc EXCEPT ![s].ncmd = IF NativeSent(s) /\ @ < 2 THEN @ + 1 ELSE @]
         /\ UNCHANGED <<holder, free, misrel, rows, pend, locked, ctx, inh, cl>>

FinalizeCall(t, s, x, hx) ==
    /\ Finalize(t, s, sc, pend)
    /\ Returns(t, s, FinalizeRaises(s), x, hx)
    /\ UNCHANGED <<rows, locked, inh, cl>>

Owns(t, s) == sc[s].owner = t

Commit(t, s) ==
    Running(t) /\ Owns(t, s) /\ EndCall(t, s, "commit", FALSE, ExReset(t))
Rollback(t, s) ==
    Running(t) /\ Owns(t, s) /\ EndCall(t, s, "rollback", FALSE, ExReset(t))
FinalizeScope(t, s) ==
    Running(t) /\ Owns(t, s) /\ FinalizeCall(t, s, FALSE, ExReset(t))

\* The native transaction of scope s can be ended.  The asyncpg Transaction
\* made by start() is bound to the connection itself, not to the pool's
\* handle, so its COMMIT / ROLLBACK reaches the connection even after the
\* handle was released.  A top-level COMMIT / ROLLBACK with no transaction
\* open is accepted by the server (with a warning); releasing or rolling
\* back to a savepoint that is gone is an error.
CanEnd(s) ==
    /\ sc[s].xact = "open"
    /\ sc[s].conn.c # 0
    /\ sc[s].lvl = 1 \/ sc[s].lvl <= Len(pend[sc[s].conn.c])

\* The pending rows of connection c after the native transaction at level k
\* is committed (merged into the enclosing level) or rolled back.
StackAfterEnd(q, k, cmd) ==
    IF cmd = "rollback" \/ k = 1 THEN SubSeq(q, 1, k - 1)
    ELSE [SubSeq(q, 1, k - 1) EXCEPT ![k - 1] = @ + SumFrom(q, k)]
RowsAfterEnd(q, k, cmd) ==
    IF cmd = "commit" /\ k = 1 THEN rows + SumFrom(q, k) ELSE rows

\* The native commit / rollback returns.  On success finalize() runs; a
\* command that fails leaves commit() / rollback() by the exception.
NativeDone(t, ok) ==
    /\ pc[t] \in {"commit", "rollback"}
    /\ LET s == tk[t].s
           c == sc[s].conn.c
       IN /\ ok => CanEnd(s)
          /\ IF ok
             THEN /\ rows' = RowsAfterEnd(pend[c], sc[s].lvl, pc[t])
                  /\ Finalize(t, s, [sc EXCEPT ![s].xact = "done"],
                              [pend EXCEPT ![c] = StackAfterEnd(@, sc[s].lvl, pc[t])])
                  /\ Returns(t, s, FinalizeRaises(s), tk[t].x, ex)
             ELSE /\ sc' = [sc EXCEPT ![s].xact = IF @ = "none" THEN @ ELSE "done"]
                  /\ Returns(t, s, "Drv", tk[t].x, ex)
                  /\ UNCHANGED <<holder, free, misrel, rows, pend, ctx>>
    /\ UNCHANGED <<locked, inh, cl>>

\* ------------------------------------------------- the scoped block
\* __aexit__ without its TransactionManagementError branch.
AExitMethodNoTME(e) == IF e # "none" THEN "rollback" ELSE "commit"

\* __aexit__ that commits whatever the body did.
AExitMethodCommit(e) == "commit"

\* BaseTransactionWrapper.__aexit__: the method it calls for the exception
\* type of the body ("none": the body returned).
AExitMethod(e) ==
    IF e # "none"
    THEN IF e = "TME" THEN "finalize" ELSE "rollback"
    ELSE "commit"

\* The body of the innermost block of task t ends, by returning or by the
\* exception in flight, and __aexit__ runs.
AExit(t) ==
    /\ pc[t] = "run"
    /\ tk[t].blocks # <<>>
    /\ LET s == Head(tk[t].blocks)
           e == tk[t].exc
           m == AExitMethod(e)
           hx == [ex EXCEPT ![t] = [NewEx EXCEPT !.s = s, !.bexc = e, !.via = m,
                                                 !.r0 = sc[s].r0,
                                                 !.n = PendingOn(sc[s].conn)]]
       IN IF m = "finalize"
          THEN FinalizeCall(t, s, TRUE, hx)
          ELSE EndCall(t, s, m, TRUE, hx)

\* User code in a block raises an arbitrary error.
Raise(t) ==
    /\ Running(t)
    /\ tk[t].blocks # <<>>
    /\ tk' = [tk EXCEPT ![t].exc = "E"]
    /\ ex' = ExReset(t)
    /\ UNCHANGED <<holder, free, misrel, rows, pend, sc, locked, ctx, inh, pc, cl>>

\* User code handles the exception in flight (try / except).
Catch(t) ==
    /\ pc[t] = "run"
    /\ tk[t].exc # "none"
    /\ tk' = [tk EXCEPT ![t].exc = "none"]
    /\ ex' = ExReset(t)
    /\ UNCHANGED <<holder, free, misrel, rows, pend, sc, locked, ctx, inh, pc, cl>>

\* ------------------------------------------------- Client life cycle
\* A task in a life-cycle method of the Client is at one of these awaits:
\* of asyncpg.create_pool, of the SET search_path statement, of the
\* CREATE / DROP DATABASE statement, of wait_for(pool.close(), 10).
\* tk[t].m is the public method called last, tk[t].had whether the Client
\* had a Pool when it was called, tk[t].q the Pool whose close() is awaited.
\* holder / free / pend are the connections of the Pool the Client refers
\* to: when _pool is assigned they become those of the new Pool.
LifePcs == {"mkpool", "setpath", "ddl", "closing"}
Made == Cardinality({q \in Pools : cl.st[q] # "none"})
NoPend == [c \in Conns |-> <<>>]

LifeTk(t, m, had, h, q, e) ==
    [tk EXCEPT ![t] = [@ EXCEPT !.m = m, !.had = had, !.h = h, !.q = q,
                                !.exc = e]]

\* The method m of task t ends, raising e unless e = "none".
LifeReturns(t, m, had, e, hl, fr, c) ==
    /\ pc' = [pc EXCEPT ![t] = "run"]
    /\ tk' = LifeTk(t, m, had, NoConn, 0, e)
    /\ holder' = hl /\ free' = fr /\ cl' = c

\* execute_script on the Client up to the await of its statement (pc k):
\* the PoolConnectionDispatcher acquires a connection of the Pool.
ScriptStart(t, m, had, k, hl, fr, c) ==
    /\ fr # <<>>
    /\ pc' = [pc EXCEPT ![t] = k]
    /\ tk' = LifeTk(t, m, had, [c |-> Head(fr), by |-> -t], 0, "none")
    /\ holder' = [hl EXCEPT ![Head(fr)] = -t]
    /\ free' = Tail(fr)
    /\ cl' = c

\* create_connection has returned inside method m: create_connection
\* itself returns, db_create / db_delete go on to their statement.
AfterCreate(t, m, had, hl, fr, c) ==
    IF m = "create_connection"
    THEN LifeReturns(t, m, had, "none", hl, fr, c)
    ELSE ScriptStart(t, m, had, "ddl", hl, fr, c)

\* create_connection after its `if not self._pool` block (client.py:130-132):
\* with a schema configured it runs SET search_path, whether or not this
\* call made the Pool.
SetsPath(c, had) == c.schema

SchemaPart(t, m, had, hl, fr, c) ==
    IF SetsPath(c, had)
    THEN ScriptStart(t, m, had, "setpath", hl, fr, c)
    ELSE AfterCreate(t, m, had, hl, fr, c)

\* create_connection, called directly or first thing by db_create /
\* db_delete, up to its first await.
CreateCall(t, m) ==
    /\ Running(t)
    /\ IF cl.pool = 0
       THEN /\ Made < MaxPools
            /\ pc' = [pc EXCEPT ![t] = "mkpool"]
            /\ tk' = LifeTk(t, m, FALSE, NoConn, 0, "none")
            /\ UNCHANGED <<holder, free, cl>>
       ELSE SchemaPart(t, m, TRUE, holder, free, cl)
    /\ ex' = ExReset(t)
    /\ UNCHANGED <<misrel, rows, pend, sc, locked, ctx, inh>>

create_connection(t) == CreateCall(t, "create_connection")
db_create(t) == CreateCall(t, "db_create")
db_delete(t) == CreateCall(t, "db_delete")

\* self._pool = await asyncpg.create_pool(...) (client.py:121): the new Pool
\* n replaces whatever _pool holds by now.
ClientAfterCreatePool(c, n) ==
    [c EXCEPT !.st = [@ EXCEPT ![n] = "open"], !.pool = n,
              !.lost = @ \/ (c.pool # 0 /\ c.st[c.pool] = "open")]

\* asyncpg.create_pool returns (d = "ok") or raises; InvalidCatalogNameError
\* becomes DBConnectionError (client.py:127-129).
PoolCreated(t, d) ==
    /\ pc[t] = "mkpool"
    /\ d \in {"ok", "nocat", "Drv"}
    /\ IF d = "ok"
       THEN /\ SchemaPart(t, tk[t].m, FALSE, NoHolder, AllFree,
                          ClientAfterCreatePool(cl, Made + 1))
            /\ pend' = NoPend
       ELSE /\ LifeReturns(t, tk[t].m, FALSE,
                           IF d = "nocat" THEN "DBConnectionError" ELSE d,
                           holder, free, cl)
            /\ UNCHANGED pend
    /\ UNCHANGED <<misrel, rows, sc, locked, ctx, inh, ex>>

\* The SET search_path statement returns or raises, and the connection is
\* released.
SetPathDone(t, d) ==
    /\ pc[t] = "setpath"
    /\ d \in {"ok", "syntax", "Drv"}
    /\ LET h == tk[t].h
           c == IF d = "ok" THEN [cl EXCEPT !.nset = IF @ < 2 THEN @ + 1 ELSE @]
                ELSE cl
       IN /\ d = "ok" => Live(h)
          /\ IF d = "ok"
             THEN AfterCreate(t, tk[t].m, tk[t].had, HolderAfterRelease(h),
                              FreeAfterRelease(h), c)
             ELSE LifeReturns(t, tk[t].m, tk[t].had, translate_exceptions(d),
                              HolderAfterRelease(h), FreeAfterRelease(h), c)
          /\ pend' = PendAfterRelease(pend, h)
          /\ misrel' = MisrelAfterRelease(h)
    /\ UNCHANGED <<rows, sc, locked, ctx, inh, ex>>

\* close() up to its await (client.py:134-146): with a Pool it awaits
\* wait_for(self._pool.close(), 10), with none it returns at once.
CloseFrom(t, m, had, hl, fr, c) ==
    IF c.pool # 0
    THEN /\ pc' = [pc EXCEPT ![t] = "closing"]
         /\ tk' = LifeTk(t, m, had, NoConn, c.pool, "none")
         /\ holder' = hl /\ free' = fr /\ cl' = c
    ELSE LifeReturns(t, m, had, "none", hl, fr, c)

close(t) ==
    /\ Running(t)
    /\ CloseFrom(t, "close", cl.pool # 0, holder, free, cl)
    /\ ex' = ExReset(t)
    /\ UNCHANGED <<misrel, rows, pend, sc, locked, ctx, inh>>

\* db_delete without its `except InvalidCatalogNameError: pass`.
SwallowedNever(m, e) == FALSE

\* The error of the statement that db_delete swallows (client.py:157-160).
Swallowed(m, e) == m = "db_delete" /\ e = "nocat"

\* What the server answers to CREATE / DROP DATABASE: creating a database
\* that exists is a syntax-or-access error, dropping one that does not
\* exist an invalid-catalog error.
DdlAnswer(m) ==
    IF m = "db_create" THEN (IF cl.db THEN "syntax" ELSE "ok")
    ELSE (IF cl.db THEN "ok" ELSE "nocat")

\* The CREATE / DROP DATABASE statement returns or raises, the connection is
\* released, and the method goes on to close() unless the error leaves it.
DdlDone(t, d) ==
    /\ pc[t] = "ddl"
    /\ d \in {DdlAnswer(tk[t].m), "Drv"}
    /\ LET h == tk[t].h
           m == tk[t].m
           e == translate_exceptions(d)
           c == IF d = "ok" THEN [cl EXCEPT !.db = (m = "db_create")] ELSE cl
       IN /\ d = "ok" => Live(h)
          /\ IF d = "ok" \/ Swallowed(m, e)
             THEN CloseFrom(t, m, tk[t].had, HolderAfterRelease(h),
                            FreeAfterRelease(h), c)
             ELSE LifeReturns(t, m, tk[t].had, e, HolderAfterRelease(h),
                              FreeAfterRelease(h), c)
          /\ pend' = PendAfterRelease(pend, h)
          /\ misrel' = MisrelAfterRelease(h)
    /\ UNCHANGED <<rows, sc, locked, ctx, inh, ex>>

\* A connection of Pool q is acquired and not released.
Outstanding(q) == q = cl.pool /\ \E c \in Conns : holder[c] # 0

\* Pool.close() returns within the grace period: it waits until every
\* connection is released (at once when the Pool is closed already);
\* _close returns and close() sets _pool to None.
CloseDone(t) ==
    /\ pc[t] = "closing"
    /\ LET q == tk[t].q
       IN /\ cl.st[q] = "open" => ~Outstanding(q)
          /\ LifeReturns(t, tk[t].m, tk[t].had, "none", NoHolder, <<>>,
                [cl EXCEPT !.st = [@ EXCEPT ![q] = IF @ = "open" THEN "closed" ELSE @],
                           !.pool = 0,
                           !.lost = @ \/ (cl.pool \notin {0, q}
                                          /\ cl.st[cl.pool] = "open")])
    /\ pend' = NoPend
    /\ UNCHANGED <<misrel, rows, sc, locked, ctx, inh, ex>>

\* The grace period can end while Pool.close() still waits: a connection is
\* outstanding, or another close() has just terminated the Pool.
GraceEnds(q) ==
    \/ cl.st[q] = "open" /\ Outstanding(q)
    \/ cl.st[q] = "terminated"

\* The grace period ends: wait_for cancels Pool.close(), which terminates
\* its Pool, and raises TimeoutError; _close calls self._pool.terminate()
\* (client.py:138-139), which fails on None; else close() sets _pool to None.
CloseTimeout(t) ==
    /\ pc[t] = "closing"
    /\ GraceEnds(tk[t].q)
    /\ LET q == tk[t].q
           s1 == [cl.st EXCEPT ![q] = IF @ = "open" THEN "terminated" ELSE @]
       IN IF cl.pool = 0
          THEN LifeReturns(t, tk[t].m, tk[t].had, "AttributeError",
                           NoHolder, <<>>, [cl EXCEPT !.st = s1])
          ELSE LifeReturns(t, tk[t].m, tk[t].had, "none", NoHolder, <<>>,
                   [cl EXCEPT !.st = [s1 EXCEPT ![cl.pool] =
                                          IF @ = "open" THEN "terminated" ELSE @],
                              !.pool = 0])
    /\ pend' = NoPend
    /\ UNCHANGED <<misrel, rows, sc, locked, ctx, inh, ex>>

\* The driver's answer when nothing fails but what the program did wrong:
\* a command on a connection that was released, or on None, is refused.
BeginOk(t) == Live(sc[tk[t].s].conn)
StmtOk(t) == Live(tk[t].h)
EndOk(t) == CanEnd(tk[t].s)

\* ---------------------------------------------------------------- Spec
\* One task using the block surface (async with in_transaction(), nested or
\* not), with commit() / rollback() called in the body, data operations and
\* errors; a native command or a statement may fail at any time.
Next == \E t \in {1} :
    \/ InTransaction(t)
    \/ \E s \in Scopes : Start(t, s, TRUE)
    \/ \E ok \in BOOLEAN : BeginDone(t, ok)
    \/ \E s \in Scopes : Commit(t, s)
    \/ \E s \in Scopes : Rollback(t, s)
    \/ \E ok \in BOOLEAN : NativeDone(t, ok)
    \/ AExit(t)
    \/ Raise(t)
    \/ Catch(t)

Init == InitWith({1})
Spec == Init /\ [][Next]_vars

\* -------------------------------------------------------------- SpecOK
\* The same task with a driver that fails only where the program misuses it.
NextOK == \E t \in {1} :
    \/ InTransaction(t)
    \/ \E s \in Scopes : Start(t, s, TRUE)
    \/ BeginDone(t, BeginOk(t))
    \/ OpBegin(t)
    \/ StmtDone(t, StmtOk(t))
    \/ \E s \in Scopes : Commit(t, s)
    \/ \E s \in Scopes : Rollback(t, s)
    \/ NativeDone(t, EndOk(t))
    \/ AExit(t)
    \/ Raise(t)
    \/ Catch(t)

SpecOK == Init /\ [][NextOK]_vars

\* ------------------------------------------------------------- SpecIso
\* Two tasks started outside any transaction and a task one of them spawns,
\* each creating, starting and ending a scope of its own through a
\* start_transaction() handle, in any order and interleaving.  The scope of
\* the spawned task is nested in the scope it inherited, if any.
NextIso == \E t \in Tasks :
    \/ \E u \in SubTasks : Spawn(t, u)
    \/ Owned(t) = 0 /\ InTransaction(t)
    \/ \E s \in Scopes : Start(t, s, FALSE)
    \/ \E ok \in BOOLEAN : BeginDone(t, ok)
    \/ \E s \in Scopes : Commit(t, s)
    \/ \E s \in Scopes : Rollback(t, s)
    \/ \E s \in Scopes : FinalizeScope(t, s)
    \/ \E ok \in BOOLEAN : NativeDone(t, ok)
    \/ Catch(t)

SpecIso == InitWith(TopTasks) /\ [][NextIso]_vars

\* ----------------------------------------------------------- SpecChain
\* test_concurrency_transactions_concurrent: a task in a root transaction
\* block and a sub-task it spawns inside the block (asyncio.gather in the
\* body).  Both run data operations against the scopes of the one nesting
\* chain, and the sub-task opens nested blocks.  The driver fails only
\* where the program misuses it.
NextChain == \E t \in {1, 3} :
    \/ \E u \in SubTasks : get_current_transaction(t) # CLIENT /\ Spawn(t, u)
    \/ (t = 1 => Owned(t) = 0) /\ InTransaction(t)
    \/ \E s \in Scopes : Start(t, s, TRUE)
    \/ BeginDone(t, BeginOk(t))
    \/ OpBegin(t)
    \/ LockGranted(t)
    \/ StmtDone(t, StmtOk(t))
    \/ NativeDone(t, EndOk(t))
    \/ AExit(t)
    \/ Catch(t)

SpecChain == InitWith({1}) /\ [][NextChain]_vars

\* -------------------------------------------------------- SpecRollback
\* test_transaction_fail: root blocks, one after the other, whose body
\* creates rows and may raise, with a driver that does not fail.
NextRollback == \E t \in {1} :
    \/ /\ \A s \in Scopes : sc[s].owner = t => sc[s].fin
       /\ InTransaction(t)
    \/ \E s \in Scopes : Start(t, s, TRUE)
    \/ BeginDone(t, BeginOk(t))
    \/ OpBegin(t)
    \/ StmtDone(t, StmtOk(t))
    \/ NativeDone(t, EndOk(t))
    \/ AExit(t)
    \/ Raise(t)
    \/ Catch(t)

SpecRollback == Init /\ [][NextRollback]_vars

\* ------------------------------------------------------------ SpecLive
\* test_concurrency_transaction_create: every task wraps RowsPerTask row
\* creations in its own root transaction block; there are more tasks than
\* connections in the Pool.  Each task is scheduled fairly.
RowsPerTask == MaxRows

BlockPending(t) == PendingOn(sc[Head(tk[t].blocks)].conn)

LiveNext(t) ==
    \/ /\ \A s \in Scopes : sc[s].owner # t
       /\ InTransaction(t)
    \/ \E s \in Scopes : Start(t, s, TRUE)
    \/ BeginDone(t, BeginOk(t))
    \/ /\ tk[t].blocks # <<>>
       /\ BlockPending(t) < RowsPerTask
       /\ OpStart(t)
    \/ StmtDone(t, StmtOk(t))
    \/ /\ tk[t].blocks # <<>>
       /\ BlockPending(t) = RowsPerTask
       /\ AExit(t)
    \/ NativeDone(t, EndOk(t))

NextLive == \E t \in Tasks : LiveNext(t)

SpecLive == InitWith(Tasks) /\ [][NextLive]_vars
            /\ \A t \in Tasks : WF_vars(LiveNext(t))

\* ---------------------------------------------------------- SpecHandle
\* One task that drives its scopes through handles (in_transaction() /
\* start_transaction() objects): start, commit, rollback and finalize are
\* called in any order, start() also on a scope started before, and the
\* driver may fail any native command.
NextHandle == \E t \in {1} :
    \/ InTransaction(t)
    \/ \E s \in Scopes : Start(t, s, FALSE)
    \/ \E s \in Scopes : Restart(t, s)
    \/ \E ok \in BOOLEAN : BeginDone(t, ok)
    \/ \E s \in Scopes : Commit(t, s)
    \/ \E s \in Scopes : Rollback(t, s)
    \/ \E s \in Scopes : FinalizeScope(t, s)
    \/ \E ok \in BOOLEAN : NativeDone(t, ok)
    \/ Catch(t)

SpecHandle == Init /\ [][NextHandle]_vars

\* ------------------------------------------------------------ SpecOnce
\* SpecHandle for a task that calls start() once per scope.
NextOnce == \E t \in {1} :
    \/ InTransaction(t)
    \/ \E s \in Scopes : Start(t, s, FALSE)
    \/ \E ok \in BOOLEAN : BeginDone(t, ok)
    \/ \E s \in Scopes : Commit(t, s)
    \/ \E s \in Scopes : Rollback(t, s)
    \/ \E s \in Scopes : FinalizeScope(t, s)
    \/ \E ok \in BOOLEAN : NativeDone(t, ok)
    \/ Catch(t)

SpecOnce == Init /\ [][NextOnce]_vars

\* ------------------------------------------------------------ SpecNest
\* A task that nests scopes through handles and a sub-task it spawns while
\* a scope is current; the sub-task goes on after the spawning task has
\* ended scopes.  Every scope is started once and ended by commit(); the
\* driver fails only where the program misuses it.
NextNest == \E t \in {1, 3} :
    \/ \E u \in SubTasks : get_current_transaction(t) # CLIENT /\ Spawn(t, u)
    \/ InTransaction(t)
    \/ \E s \in Scopes : Start(t, s, FALSE)
    \/ BeginDone(t, BeginOk(t))
    \/ \E s \in Scopes : Commit(t, s)
    \/ NativeDone(t, EndOk(t))
    \/ Catch(t)

SpecNest == Init /\ [][NextNest]_vars

\* ---------------------------------------------------------- SpecBlocks
\* One task in transaction blocks, nested or one after the other, whose
\* bodies may raise; the scopes are ended by the blocks only.  The driver
\* may fail any native command.
NextBlocks == \E t \in {1} :
    \/ InTransaction(t)
    \/ \E s \in Scopes : Start(t, s, TRUE)
    \/ \E ok \in BOOLEAN : BeginDone(t, ok)
    \/ \E ok \in BOOLEAN : NativeDone(t, ok)
    \/ AExit(t)
    \/ Raise(t)
    \/ Catch(t)

SpecBlocks == Init /\ [][NextBlocks]_vars

\* ------------------------------------------------------------ SpecPool
\* test_concurrency_read / test_concurrency_create: asyncio.gather, outside
\* any transaction, of one data operation per task; there are more tasks
\* than pooled connections and a statement may fail.
NextPool == \E t \in Tasks :
    \/ OpStart(t)
    \/ \E ok \in BOOLEAN : StmtDoneEnd(t, ok)

SpecPool == InitWith(Tasks) /\ [][NextPool]_vars

\* ----------------------------------------------------------- SpecFrame
\* One task using handles (in_transaction() / start_transaction(), each
\* started at most once, then commit() or rollback(); finalize() before
\* start()) and data operations, inside and outside the scopes.  The native
\* begin may fail, the other commands fail only where the program misuses
\* the driver.
NextFrame == \E t \in {1} :
    \/ InTransaction(t)
    \/ \E s \in Scopes : Start(t, s, FALSE)
    \/ \E ok \in BOOLEAN : BeginDone(t, ok)
    \/ OpBegin(t)
    \/ StmtDone(t, StmtOk(t))
    \/ \E s \in Scopes : Commit(t, s)
    \/ \E s \in Scopes : Rollback(t, s)
    \/ \E s \in Scopes : sc[s].old = NONE /\ FinalizeScope(t, s)
    \/ NativeDone(t, EndOk(t))
    \/ Catch(t)

SpecFrame == Init /\ [][NextFrame]_vars

\* ---------------------------------------------------------- SpecCreate
\* Start-up of a new Client: two tasks call create_connection, one after
\* the other or both at once; create_pool and the SET statement may fail.
NextCreate == \E t \in TopTasks :
    \/ create_connection(t)
    \/ \E d \in DriverErrors \cup {"ok"} : PoolCreated(t, d)
    \/ \E d \in DriverErrors \cup {"ok"} : SetPathDone(t, d)
    \/ Catch(t)

SpecCreate == InitNoPool(TopTasks) /\ [][NextCreate]_vars

\* ------------------------------------------------------------- SpecErr
\* One task running data operations on the Client and inside transaction
\* blocks; a statement may raise an error of any class.  The native
\* commands fail only where the program misuses the driver.
NextErr == \E t \in {1} :
    \/ InTransaction(t)
    \/ \E s \in Scopes : Start(t, s, TRUE)
    \/ BeginDone(t, BeginOk(t))
    \/ OpBegin(t)
    \/ \E d \in DriverErrors \cup {"ok"} : StmtDoneWith(t, d)
    \/ NativeDone(t, EndOk(t))
    \/ AExit(t)
    \/ Catch(t)

SpecErr == Init /\ [][NextErr]_vars

\* ----------------------------------------------------------- SpecAdmin
\* Administration of a database that does not exist yet: one task calls
\* db_create and db_delete, in any order and number; create_pool and the
\* statements may fail.  Another task runs data operations while there is
\* a Pool, and its statement may outlast the grace period of close().
NextAdmin == \E t \in Tasks :
    \/ t = 1 /\ db_create(t)
    \/ t = 1 /\ db_delete(t)
    \/ \E d \in DriverErrors \cup {"ok"} : PoolCreated(t, d)
    \/ \E d \in DriverErrors \cup {"ok"} : SetPathDone(t, d)
    \/ \E d \in DriverErrors \cup {"ok"} : DdlDone(t, d)
    \/ CloseDone(t)
    \/ CloseTimeout(t)
    \/ t \in SubTasks /\ cl.pool # 0 /\ OpBegin(t)
    \/ StmtDone(t, StmtOk(t))
    \/ Catch(t)

InitAdmin == InitNoPool({1} \cup SubTasks) /\ ~cl.db

SpecAdmin == InitAdmin /\ [][NextAdmin]_vars

\* ------------------------------------------------------------ SpecCaps
\* A Capabilities object constructed with any arguments, then any number
\* of attribute assignments by user code.
Bools == {"True", "False"}

InitCaps ==
    /\ InitBase({})
    /\ holder = NoHolder
    /\ free = <<>>
    /\ cl \in {[NewClient(FALSE) EXCEPT !.capabilities =
                     Capabilities_init(dialect, daemon, safe_indexes,
                                       requires_limit, inline_comment, pooling)] :
                  dialect \in {"", "postgres"}, daemon \in Bools,
                  safe_indexes \in Bools, requires_limit \in Bools,
                  inline_comment \in Bools, pooling \in Bools}

\* caps.a = x in user code.
SetAttr(a, x) ==
    /\ cl' = [cl EXCEPT !.capabilities = Capabilities_setattr(@, a, x)]
    /\ UNCHANGED <<holder, free, misrel, rows, pend, sc, locked, ctx, inh, pc,
                   tk, ex>>

NextCaps == \E a \in CapAttrs : \E x \in CapValues : SetAttr(a, x)

SpecCaps == InitCaps /\ [][NextCaps]_vars

\* ------------------------------------------------------------ SpecLock
\* A task in a root transaction block, with a nested block inside it, and
\* the sub-tasks it spawns inside the blocks all run data operations on the
\* scopes of the one nesting chain.  A statement may raise an error that
\* is translated or one that is not, and a task waiting for the lock may be
\* cancelled.  A statement in
\* flight ends sooner or later, and asyncio.Lock wakes its waiters in the
\* order of their arrival, so that no waiter is passed over for ever.
LockNext(t) ==
    \/ t = 1 /\ Owned(t) < 2 /\ InTransaction(t)
    \/ t = 1 /\ \E s \in Scopes : Start(t, s, TRUE)
    \/ BeginDone(t, BeginOk(t))
    \/ t = 1 /\ \E u \in Tasks \ {t} :
                    get_current_transaction(t) # CLIENT /\ Spawn(t, u)
    \/ get_current_transaction(t) # CLIENT /\ OpBegin(t)
    \/ LockWaitCancelled(t)
    \/ Catch(t)

StmtEnds(t) == \E d \in {"ok", "syntax", "Drv"} : StmtDoneWith(t, d)

NextLock == \E t \in Tasks : LockNext(t) \/ LockGranted(t) \/ StmtEnds(t)

SpecLock == InitWith({1}) /\ [][NextLock]_vars
            /\ \A t \in Tasks : WF_vars(StmtEnds(t)) /\ SF_vars(LockGranted(t))

\* ----------------------------------------------------------- SpecClose
\* Shutdown of a Client that has a Pool: two tasks call close(), a third
\* runs a data operation whose statement may take longer than the grace
\* period, and fails once its connection is gone.
NextClose == \E t \in Tasks :
    \/ t \in TopTasks /\ close(t)
    \/ CloseDone(t)
    \/ CloseTimeout(t)
    \/ t \in SubTasks /\ cl.pool # 0 /\ OpBegin(t)
    \/ StmtDone(t, StmtOk(t))
    \/ Catch(t)

SpecClose == InitWith(Tasks) /\ [][NextClose]_vars

\* ---------------------------------------------------------- SpecGather
\* test_concurrency_transactions_concurrent / create_trans_concurrent: a task
\* runs root transaction blocks one after the other; the body of each is an
\* awaited asyncio.gather of one row creation per task of GatherTasks; the
\* body may raise before or after the gather.  The driver does not fail.
GatherTasks == {2, 3}

\* The gather of the innermost block of task t has returned: every
\* sub-task was spawned in the block and has ended.
Joined(t) ==
    /\ tk[t].blocks # <<>>
    /\ \A u \in GatherTasks : inh[u] = Head(tk[t].blocks) /\ pc[u] = "off"

\* The gather of the innermost block of task t has not begun.
NotGathered(t) ==
    /\ tk[t].blocks # <<>>
    /\ \A u \in GatherTasks : inh[u] # Head(tk[t].blocks) /\ pc[u] = "off"

NextGather ==
    \/ /\ \A s \in Scopes : sc[s].owner = 1 => sc[s].fin
       /\ InTransaction(1)
    \/ \E s \in Scopes : Start(1, s, TRUE)
    \/ BeginDone(1, BeginOk(1))
    \/ \E u \in GatherTasks :
          /\ tk[1].blocks # <<>>
          /\ inh[u] # get_current_transaction(1)
          /\ Spawn(1, u)
    \/ \E u \in GatherTasks : OpStart(u)
    \/ \E u \in GatherTasks : LockGranted(u)
    \/ \E u \in GatherTasks : StmtDoneEnd(u, StmtOk(u))
    \/ (Joined(1) \/ NotGathered(1)) /\ Raise(1)
    \/ (Joined(1) \/ (NotGathered(1) /\ tk[1].exc # "none")) /\ AExit(1)
    \/ NativeDone(1, EndOk(1))
    \/ Catch(1)

SpecGather == InitWith({1}) /\ [][NextGather]_vars

\* ================================================================ claims
RECURSIVE Root(_)
\* The root of the nesting chain of a scope.
Root(s) == IF sc[s].parent = CLIENT THEN s ELSE Root(sc[s].parent)

\* C1. The registry value of a task is never a scope another task started,
\* unless the task was spawned inside that scope and inherited it.
C1_RegistryIsolation ==
    \A b \in Tasks :
        LET v == get_current_transaction(b)
        IN (v # CLIENT /\ sc[v].owner # b) => v = inh[b]

\* C1 witness: both tasks started outside have a started scope of their own
\* as their current transaction at the same time, and the spawned task has
\* the scope it inherited.
C1_Witness ==
    /\ ctx[1] # CLIENT /\ sc[ctx[1]].owner = 1 /\ ~sc[ctx[1]].fin
    /\ ctx[2] # CLIENT /\ sc[ctx[2]].owner = 2 /\ ~sc[ctx[2]].fin
    /\ pc[3] # "off" /\ inh[3] # CLIENT /\ ctx[3] = inh[3]

\* C2. A scope entered through the block surface has had the effects of
\* finalize() exactly once when the block is left, however the body ended.
C2_FinalizeOncePerBlock ==
    \A t \in Tasks : ex[t].out # "-" => sc[ex[t].s].nfin = 1

\* C3. From its start() to its own finalize() the connection a scope pinned
\* stays acquired from the Pool under the scope's handle: it is neither
\* available nor handed to another acquirer.
C3_PinnedStaysAcquired ==
    \A s \in Scopes :
        (sc[s].old # NONE /\ ~sc[s].fin) => Live(sc[s].conn)

\* C4. Pool.release is never called for an acquisition that was released
\* already, nor with None.
C4_ReleaseOncePerAcquire == misrel = "none"

\* C5. At most one task at a time is inside the scoped acquisition of the
\* pinned connection (between lock.acquire and lock.release) for the scopes
\* of one nesting chain.
C5_MutualExclusion ==
    \A t1, t2 \in Tasks :
        (/\ t1 # t2
         /\ pc[t1] = "stmt" /\ tk[t1].src # CLIENT
         /\ pc[t2] = "stmt" /\ tk[t2].src # CLIENT)
        => Root(tk[t1].src) # Root(tk[t2].src)

\* C5 witness: one task runs its statement while another of the same chain
\* waits for the lock.
C5_Witness ==
    \E t1, t2 \in Tasks :
        /\ pc[t1] = "stmt" /\ tk[t1].src # CLIENT
        /\ pc[t2] = "lockwait"
        /\ Root(tk[t1].src) = Root(tk[t2].src)

\* C6. A native begin / commit / rollback of a scope is never in flight
\* while another task runs a data statement against a scope of the same
\* nesting chain.
C6_NativeCommandsSerialized ==
    \A t1, t2 \in Tasks :
        (/\ t1 # t2
         /\ pc[t1] \in {"begin", "commit", "rollback"}
         /\ pc[t2] = "stmt" /\ tk[t2].src # CLIENT)
        => Root(tk[t1].s) # Root(tk[t2].src)

\* C7. __aexit__ calls commit when the body returned, finalize (and sends no
\* native command) when the body raised a TransactionManagementError, and
\* rollback when the body raised anything else.
C7_ExitPolicy ==
    \A t \in Tasks :
        ex[t].via # "-" =>
            /\ ex[t].bexc = "none" => ex[t].via = "commit"
            /\ ex[t].bexc = "TME" => (ex[t].via = "finalize" /\ ~ex[t].nat)
            /\ ex[t].bexc \notin {"none", "TME"} => ex[t].via = "rollback"
            /\ pc[t] \in {"commit", "rollback"} => pc[t] = ex[t].via

\* C7 witness: a block left by a TransactionManagementError of its body.
C7_Witness ==
    \E t \in Tasks :
        ex[t].bexc = "TME" /\ ex[t].via = "finalize" /\ ex[t].out # "-"

\* C8. An error raised by the body of a block (other than a
\* TransactionManagementError, which the exit policy does not roll back)
\* reaches the caller of the block as the same error, with the scope
\* finalized, also when the body had ended the scope itself.
C8_BodyErrorReachesCaller ==
    \A t \in Tasks :
        (ex[t].out # "-" /\ ex[t].bexc \notin {"none", "TME"}) =>
            (ex[t].out = ex[t].bexc /\ sc[ex[t].s].fin)

\* C9. After a root block whose body created rows and raised an error, the
\* committed rows are those committed when the block started, no row is
\* left pending, the task's registry yields the Client and the caller sees
\* the error of the body.
C9_FullRollback ==
    \A t \in Tasks :
        (/\ ex[t].out # "-"
         /\ ex[t].bexc \notin {"none", "TME"}
         /\ sc[ex[t].s].parent = CLIENT)
        => (/\ rows = ex[t].r0
            /\ Pending = 0
            /\ get_current_transaction(t) = CLIENT
            /\ ex[t].out = ex[t].bexc)

\* C9 witness: a root block left by the error of a body that had created
\* MaxRows rows.
C9_Witness ==
    \E t \in Tasks :
        /\ ex[t].out = "E" /\ ex[t].n = MaxRows
        /\ sc[ex[t].s].parent = CLIENT

\* C10. Every task has committed and finalized its transaction, all rows
\* are committed and every connection is back in the Pool.
LiveDone ==
    /\ \A t \in Tasks : \E s \in Scopes : sc[s].owner = t /\ sc[s].fin
    /\ \A t \in Tasks : pc[t] = "run" /\ tk[t].blocks = <<>> /\ tk[t].exc = "none"
    /\ rows = Cardinality(Tasks) * RowsPerTask
    /\ Len(free) = PoolSize

\* C10. Under fair scheduling the run of K tasks ends in LiveDone.
C10_AllCommit == <>[]LiveDone

\* C10 witness: the final state, with K * M rows.
C10_Witness == LiveDone

EndOnFinalizedRefused ==
    [][\A t \in Tasks, s \in Scopes :
          (sc[s].fin /\ (Commit(t, s) \/ Rollback(t, s))) =>
              /\ tk'[t].exc = "TME" /\ pc'[t] = "run"
              /\ UNCHANGED <<holder, free, misrel, rows, pend, sc, locked, ctx>>]_vars

\* C12. commit() / rollback() on a finalized scope is refused with nothing
\* changed, and consequently no scope has more than one native commit or
\* rollback command sent for it.
C12_NativeEndOnce == \A s \in Scopes : sc[s].ncmd <= 1

\* C13. finalize() on a scope, root or nested, whose start() has not begun
\* a native transaction raises OperationalError and changes nothing: the
\* scope (its finalized flag included), the registry and the Pool are as
\* before.
C13_FinalizeBeforeStart ==
    [][\A t \in Tasks, s \in Scopes :
          (sc[s].xact \in {"none", "new"} /\ FinalizeScope(t, s)) =>
              /\ tk'[t].exc = "OpErr"
              /\ ~sc'[s].fin
              /\ UNCHANGED <<sc, ctx, holder, free, misrel, pend, rows>>]_vars

\* C13 witness: finalize() has raised OperationalError in a task that holds
\* a nested scope it has not started, next to its started root.
C13_Witness ==
    \E t \in Tasks, s \in Scopes :
        /\ tk[t].exc = "OpErr"
        /\ sc[s].owner = t /\ sc[s].parent # CLIENT /\ sc[s].xact = "none"
        /\ get_current_transaction(t) = sc[s].parent

\* C14. start() does not go on to a native begin for a scope it was called
\* on before, and the registry value a scope saved is never the scope
\* itself (the value a second start() would save over the first).
C14_SecondStartRefused ==
    /\ \A t \in Tasks : pc[t] = "begin" => sc[tk[t].s].xact = "none"
    /\ \A s \in Scopes : sc[s].old # s

\* C15. A started scope whose native commit / rollback has been tried, with
\* or without success, is finalized: its connection is released and it is
\* not the current transaction of its task.
C15_EndAlwaysFinalizes ==
    \A s \in Scopes :
        (sc[s].old # NONE /\ sc[s].xact = "done") =>
            /\ sc[s].fin
            /\ sc[s].conn = NoConn
            /\ get_current_transaction(sc[s].owner) # s

\* C16. A started nested scope whose root is started and not finalized has
\* the root's connection (the same acquisition) and the root's lock, and
\* its connection was not acquired from the Pool by its own start().
C16_NestedSharesRoot ==
    \A s \in Scopes :
        (/\ sc[s].parent # CLIENT
         /\ sc[s].xact = "open" /\ ~sc[s].fin
         /\ sc[Root(s)].old # NONE /\ ~sc[Root(s)].fin)
        => /\ sc[s].conn = sc[Root(s)].conn
           /\ sc[s].lock = sc[Root(s)].lock
           /\ sc[s].conn.by # s

\* C17. The current transaction of every task is the Client or a scope that
\* is started and not finalized.
C17_RegistryYieldsActive ==
    \A t \in Tasks :
        LET v == get_current_transaction(t)
        IN v # CLIENT => (sc[v].old # NONE /\ ~sc[v].fin)

\* The scopes of the blocks task t is in.
OpenBlocks(t) == {tk[t].blocks[i] : i \in 1..Len(tk[t].blocks)}

\* The scopes of task t are ended last-started-first: the scopes that are
\* started and not finalized are those of the blocks the task is in.
Lifo(t) ==
    \A s \in Scopes :
        (sc[s].owner = t /\ sc[s].old # NONE /\ ~sc[s].fin) <=> s \in OpenBlocks(t)

\* C18. When a block is left with its scope finalized and the task's scopes
\* ended last-started-first, the registry yields what it yielded before the
\* block was entered: the scope of the enclosing block, or the Client after
\* the outermost block.
C18_RegistryRoundTrip ==
    \A t \in Tasks :
        (ex[t].out # "-" /\ sc[ex[t].s].fin /\ Lifo(t)) =>
            get_current_transaction(t) =
                IF tk[t].blocks = <<>> THEN CLIENT ELSE Head(tk[t].blocks)

\* C18 witness: a nested block was left by commit and the registry yields
\* the scope of the enclosing block, which is still open.
C18_Witness ==
    \E t \in Tasks :
        /\ ex[t].out = "none" /\ sc[ex[t].s].fin /\ Lifo(t)
        /\ tk[t].blocks # <<>>
        /\ get_current_transaction(t) = Head(tk[t].blocks)

\* The connection a PoolConnectionDispatcher of task t holds, if any.
HeldBy(t) == {c \in Conns : holder[c] = -t}

\* C19. Concurrent operations on the Client, more than the Pool has
\* connections: an operation in flight holds exactly one connection, which
\* is not available and which no other operation uses; an operation that
\* has ended, by success or by a failed statement, holds none; no release
\* is a release of None or of a handle already released; once all have
\* ended every connection of the Pool is available again, once.
C19_ConcurrentOps ==
    /\ misrel = "none"
    /\ \A t \in Tasks :
          /\ pc[t] = "stmt" =>
                /\ HeldBy(t) = {tk[t].h.c}
                /\ tk[t].h.c \notin Avail
                /\ \A u \in Tasks \ {t} : pc[u] = "stmt" => tk[u].h.c # tk[t].h.c
          /\ pc[t] # "stmt" => HeldBy(t) = {}
    /\ Len(free) = PoolSize - Cardinality({t \in Tasks : pc[t] = "stmt"})
    /\ (\A t \in Tasks : pc[t] = "off") => Len(free) = PoolSize /\ Avail = Conns

\* C19 witness: every operation has ended, one of them by a failed
\* statement, and the Pool is full again.
C19_Witness ==
    /\ \A t \in Tasks : pc[t] = "off"
    /\ \E t \in Tasks : tk[t].exc = "Drv"
    /\ \E t \in Tasks : tk[t].exc = "none"
    /\ Len(free) = PoolSize

\* C20. Connection routing, step by step.  A data operation issued on the
\* Client takes the connection the Pool hands out and has given it back to
\* the Pool when the call returns.  A data operation issued on a scope uses
\* the scope's own connection handle, and neither its start, nor the grant
\* of the lock, nor its end changes which connections are available or
\* who holds them.
C20_ConnectionRouting ==
    [][\A t \in Tasks :
          /\ (pc[t] = "run" /\ pc'[t] \in {"stmt", "lockwait"}) =>
                IF OpSource(t) = CLIENT
                THEN /\ free # <<>>
                     /\ free' = Tail(free)
                     /\ tk'[t].h.c = Head(free)
                     /\ holder' = [holder EXCEPT ![Head(free)] = -t]
                ELSE /\ tk'[t].h = sc[OpSource(t)].conn
                     /\ free' = free
                     /\ holder' = holder
          /\ (pc[t] = "lockwait" /\ pc'[t] = "stmt") =>
                free' = free /\ holder' = holder
          /\ (pc[t] = "stmt" /\ pc'[t] # "stmt") =>
                IF OpSource(t) = CLIENT
                THEN /\ free' = <<tk[t].h.c>> \o free
                     /\ holder' = [holder EXCEPT ![tk[t].h.c] = 0]
                ELSE free' = free /\ holder' = holder
      ]_vars

\* C20 witness: an operation issued on a started scope is in flight on the
\* scope's connection after an operation on the Client inserted a row and
\* gave its connection back.
C20_Witness ==
    \E t \in Tasks :
        /\ pc[t] = "stmt"
        /\ OpSource(t) # CLIENT
        /\ sc[OpSource(t)].old # NONE /\ ~sc[OpSource(t)].fin
        /\ tk[t].h = sc[OpSource(t)].conn
        /\ Live(tk[t].h)
        /\ rows = 1
        /\ Len(free) = PoolSize - 1

\* A step of task t in which start() registers the scope it started.
StartRegisters(t) == pc[t] = "begin" /\ ctx'[t] = tk[t].s

\* A step of task t in which finalize() of a started scope of the task
\* runs past its guard and puts back the value the scope saved.
FinalizeRestores(t) ==
    /\ pc[t] \in {"run", "commit", "rollback"}
    /\ \E s \in Scopes :
          /\ Owns(t, s) /\ sc[s].old # NONE
          /\ pc[t] # "run" => tk[t].s = s
          /\ sc'[s].fin /\ sc'[s].conn = NoConn
          /\ ctx'[t] = sc[s].old

\* C21. The registry value of a task changes only in a step where start()
\* registers a scope or finalize() runs past its guard (a new task starts
\* with the value it inherits).  In particular the making of a handle,
\* every step of a data operation, and a commit / rollback / finalize that
\* fails its guard leave the registry of every task unchanged.
C21_RegistryFrame ==
    [][/\ \A t \in Tasks :
            ctx'[t] # ctx[t] =>
                \/ StartRegisters(t)
                \/ FinalizeRestores(t)
                \/ pc[t] = "off" /\ pc'[t] = "run" /\ ctx'[t] = inh'[t]
       /\ (\E t \in Tasks : Owned(t)' # Owned(t)) => ctx' = ctx
       /\ (\E t \in Tasks : /\ pc'[t] # pc[t]
                              /\ {pc[t], pc'[t]} \cap {"stmt", "lockwait"} # {})
              => ctx' = ctx
       /\ (\E t \in Tasks : pc[t] = "run" /\ pc'[t] = "run"
                              /\ tk[t].exc = "none"
                              /\ tk'[t].exc \in {"TME", "OpErr"}) => ctx' = ctx
      ]_vars

\* C21 witness: inside a started scope the task made a second handle, ran
\* a data operation and called commit() on a scope it had finalized; the
\* registry still yields the started scope.
C21_Witness ==
    \E t \in Tasks : \E s \in Scopes :
        /\ get_current_transaction(t) = s
        /\ Owns(t, s) /\ sc[s].old # NONE /\ ~sc[s].fin
        /\ Owned(t) = 2
        /\ rows + Pending > 0
        /\ pc[t] = "run" /\ tk[t].exc = "TME"

\* C22. A close() call that has ended returned normally and left the Client
\* without a Pool.
C22_CloseReturns ==
    \A t \in Tasks :
        (tk[t].m = "close" /\ pc[t] = "run") =>
            /\ tk[t].exc # "AttributeError"
            /\ cl.pool = 0

\* C23. A create_connection call that found the Client with a Pool runs no
\* statement and holds no connection.
C23_CreateIdempotent ==
    \A t \in Tasks :
        (tk[t].m = "create_connection" /\ tk[t].had) =>
            pc[t] # "setpath" /\ HeldBy(t) = {}

\* C24. At most one Pool is ever made for the Client, and no Pool that is
\* open is dropped by an assignment to _pool.
C24_OnePool == Made <= 1 /\ ~cl.lost

\* What the caller of execute_* is to see for a driver error of class d.
Surfaces(d) ==
    CASE d = "syntax" -> "OpErr"
      [] d = "integrity" -> "IntegrityError"
      [] OTHER -> d

\* C25. In the step in which a statement of task t raises an error of class
\* d, on the Client or on a scope, the caller gets OperationalError for a
\* syntax-or-access error, IntegrityError for an integrity violation and
\* the same error for any other class (cancellation and timeout among
\* them); in that step the connection borrowed from the Pool is available
\* again, or the lock of the chain is free.
C25_ErrorsTranslated ==
    [][\A t \in Tasks : \A d \in DriverErrors :
          StmtDoneWith(t, d) =>
              /\ tk'[t].exc = Surfaces(d)
              /\ pc'[t] = "run"
              /\ IF tk[t].src = CLIENT
                 THEN Live(tk[t].h) =>
                          holder'[tk[t].h.c] = 0 /\ Head(free') = tk[t].h.c
                 ELSE ~locked'[LockOf(t)]
      ]_vars

\* C25 witness: a statement on a started scope raised an integrity
\* violation; the caller has IntegrityError and the lock is free.
C25_Witness ==
    \E t \in Tasks :
        /\ tk[t].exc = "IntegrityError"
        /\ pc[t] = "run"
        /\ get_current_transaction(t) # CLIENT
        /\ ~sc[get_current_transaction(t)].fin
        /\ ~locked[sc[get_current_transaction(t)].lock]

\* C26. When the DROP DATABASE of db_delete fails because the database does
\* not exist, no error is raised to the caller and db_delete goes on to
\* close(); and in the step in which db_create or db_delete returns, the
\* Client is left without a Pool.
C26_AdminCalls ==
    [][\A t \in Tasks :
          /\ (tk[t].m = "db_delete" /\ ~cl.db /\ DdlDone(t, "nocat")) =>
                tk'[t].exc = "none" /\ pc'[t] = "closing"
          /\ (/\ pc[t] \in LifePcs /\ pc'[t] = "run"
              /\ tk[t].m \in {"db_create", "db_delete"}
              /\ tk'[t].exc = "none") => cl'.pool = 0
      ]_vars

\* C26 witness: the first call that made a Pool was followed by a db_delete
\* that returned: the database never existed, and the Client has no Pool.
C26_Witness ==
    \E t \in Tasks :
        /\ tk[t].m = "db_delete" /\ pc[t] = "run" /\ tk[t].exc = "none"
        /\ Made = 1 /\ ~cl.db
        /\ cl.pool = 0

\* C27. Once constructed, a Capabilities object keeps every attribute
\* value: each assignment, to a field or to a new name, raises
\* AttributeError naming the attribute and changes nothing.
C27_CapabilitiesWriteOnce ==
    [][/\ cl'.capabilities.v = cl.capabilities.v
       /\ \A a \in CapAttrs : \A x \in CapValues :
              SetAttr(a, x) => cl'.capabilities.raised = a
      ]_vars

\* C27 witness: an assignment to the _mutable flag itself was refused, and
\* the object holds the fields of its constructor.
C27_Witness ==
    /\ cl.capabilities.raised = "_mutable"
    /\ cl.capabilities.v["_mutable"] = "False"
    /\ cl.capabilities.v["pooling"] \in Bools
    /\ cl.capabilities.v["extra"] = "unset"

\* C28. A root scope whose start() failed at the native begin holds no
\* connection of the Pool and is not the registry value of its task.
C28_StartFailureNoResidue ==
    \A s \in Scopes :
        (sc[s].owner # 0 /\ sc[s].parent = CLIENT /\ sc[s].xact = "new") =>
            /\ \A c \in Conns : holder[c] # s
            /\ get_current_transaction(sc[s].owner) # s

\* The lock l is held by a data operation in flight.
LockInUse(l) ==
    \E t \in Tasks : pc[t] = "stmt" /\ tk[t].src # CLIENT /\ LockOf(t) = l

\* C29. The lock of a nesting chain is taken only while a data operation of
\* the chain is in flight, so it is free again after an operation returned,
\* raised or was cancelled while waiting; and every operation that waits
\* for the lock stops waiting.
C29_LockReleased ==
    /\ [](\A l \in Scopes : locked[l] <=> LockInUse(l))
    /\ \A t \in Tasks : (pc[t] = "lockwait") ~> (pc[t] # "lockwait")

\* C29 witness: one operation of the chain ended by a translated statement
\* error, another was cancelled while it waited, and a third now holds the
\* lock.
C29_Witness ==
    \E t, u, w \in Tasks :
        /\ pc[t] = "stmt" /\ tk[t].src # CLIENT /\ locked[LockOf(t)]
        /\ pc[u] = "run" /\ tk[u].exc = "OpErr"
        /\ pc[w] = "run" /\ tk[w].exc = "cancel"
====
